---- MODULE Spec2Model ----
(***************************************************************************)
(* Model of the move ledger, the mover and the reverter of dlm             *)
(* (src/src/file_organizer.py) and of the commands of src/dlm.py that      *)
(* drive them.                                                             *)
(*                                                                         *)
(* The organized directory is a two-level tree: files and folders directly *)
(* under the base directory, and files inside those folders.  A path is    *)
(* the sequence of names below the base directory; a name is the pair      *)
(* (stem, suffix) that pathlib splits it into.  Every file carries an      *)
(* identity, so that a file that is overwritten can be told from one that  *)
(* is moved.  Names of files carry a suffix and names of folders do not,   *)
(* so no file is named like a folder.  Every call passes a ledger path,    *)
(* as every caller in the repository does.  The clock never runs           *)
(* backwards; two successive readings of it may be equal.                  *)
(***************************************************************************)
EXTENDS Integers, Sequences, FiniteSets, TLC

VARIABLES
    fs,        \* the directory tree: path -> node
    ledger,    \* ledger file name -> content of that file in .dlm/
    clock,     \* the wall clock read by datetime.now()
    nextId,    \* identity given to the next file that appears
    origin,    \* history: file identity -> path at which the file appeared
    appended,  \* history: ledger name -> every call's successful moves since the file was
               \* last absent, in call order
    undone,    \* history: revert_moves has run
    last,      \* history: the last operation, its arguments, its result and the tree before it
    lists,     \* list file name -> the file names saved in that file of .dlm/
    saved,     \* the list files that exist in .dlm/
    faults,    \* history: how often the ledger was damaged or could not be written
    groups     \* the content of .dlm/groups.json

vars == <<fs, ledger, clock, nextId, origin, appended, undone, last, lists, saved, faults,
          groups>>

----------------------------------------------------------------------------
(* Bounds *)

MaxFiles == 2       \* files that ever appear in the directory
MaxRecords == 2     \* records (of moves and of folder creations) per ledger
MaxFaults == 1      \* damages of the ledger and failed writes in one behaviour
MaxGroups == 1      \* groups in one answer of the group analysis
MaxClock == 2       \* the clock reading up to which time passes during a group organize
MaxTime == 4        \* the clock reading up to which organize-all runs
MaxMixed == 2       \* groups in one answer of an analysis that mixes kinds of groups

----------------------------------------------------------------------------
(* Names and paths *)

Name(stem, suffix) == [stem |-> stem, suffix |-> suffix]

FileNames == {Name("report", ".pdf"), Name("notes", ".txt")}

FolderNames == {Name("important", ""), Name("trash", "")}

\* the folder the calls of the library work on
TargetDirs == {Name("important", "")}

Ledgers == {"move_log.json", "group_move_log.json"}

\* groups.json is not there
NoGroups == [exists |-> FALSE, groups |-> <<>>]

\* the folder names a group analysis may suggest, in sorted order
SortedFolders == <<Name("docs", ""), Name("important", "")>>

\* the folder the group analysis suggests when the group commands run on their own
GroupFolders == {Name("docs", "")}

\* the list files of the find commands; a list file that is missing reads as an empty list
ListFiles == {"important_files.txt", "trash_files.txt"}

\* f"{name_parts[0]}_{counter}{name_parts[1]}"
NewName(name_parts, counter) ==
    Name(name_parts.stem \o "_" \o ToString(counter), name_parts.suffix)

NoName == Name("", "")

Top(name) == <<name>>

Join(dir, name) == dir \o <<name>>

Basename(path) == path[Len(path)]

----------------------------------------------------------------------------
(* The directory tree *)

FileNode(id) == [kind |-> "file", id |-> id, by |-> ""]

DirNode(by) == [kind |-> "dir", id |-> 0, by |-> by]

PathExists(tree, path) == path \in DOMAIN tree

IsDir(tree, path) == PathExists(tree, path) /\ tree[path].kind = "dir"

IsFile(tree, path) == PathExists(tree, path) /\ tree[path].kind = "file"

\* folder_path.iterdir()
Entries(tree, dir) == {p \in DOMAIN tree : Len(p) = Len(dir) + 1 /\ SubSeq(p, 1, Len(dir)) = dir}

Put(tree, path, node) ==
    [p \in DOMAIN tree \cup {path} |-> IF p = path THEN node ELSE tree[p]]

Remove(tree, path) == [p \in DOMAIN tree \ {path} |-> tree[p]]

\* os.rename of a file: an existing file at dst is replaced
Rename(tree, src, dst) == Put(Remove(tree, src), dst, tree[src])

\* shutil.move(src, dst) of a file: into dst when dst is a directory (an error when
\* the name is taken there), else a rename that replaces an existing file at dst
ShutilMove(tree, src, dst) ==
    IF IsDir(tree, dst)
    THEN LET real_dst == Join(dst, Basename(src)) IN
         IF PathExists(tree, real_dst)
         THEN [ok |-> FALSE, fs |-> tree]
         ELSE [ok |-> TRUE, fs |-> Rename(tree, src, real_dst)]
    ELSE [ok |-> TRUE, fs |-> Rename(tree, src, dst)]

FileIds(tree) == {tree[p].id : p \in {q \in DOMAIN tree : tree[q].kind = "file"}}

PathOf(tree, id) == CHOOSE p \in DOMAIN tree : tree[p].kind = "file" /\ tree[p].id = id

----------------------------------------------------------------------------
(* Timestamps: datetime.now().isoformat() and their comparison as strings *)

\* The clock counts half seconds.  isoformat() leaves the fraction out when it is
\* zero, so a timestamp is <<seconds>> or <<seconds, fraction>>.
IsoFormat(t) == IF t % 2 = 0 THEN <<t \div 2>> ELSE <<t \div 2, 5>>

\* The instant a timestamp denotes
Instant(ts) == 2 * ts[1] + (IF Len(ts) > 1 THEN 1 ELSE 0)

\* a < b for strings: the first differing position decides, a proper prefix is smaller
RECURSIVE StrLess(_, _)
StrLess(a, b) ==
    IF b = <<>> THEN FALSE
    ELSE IF a = <<>> THEN TRUE
    ELSE IF Head(a) # Head(b) THEN Head(a) < Head(b)
    ELSE StrLess(Tail(a), Tail(b))

\* a sort that is not stable: an element goes ahead of the earlier elements of its own key
InsertDescUnstable(sorted, r) ==
    LET ahead == {i \in 1..Len(sorted) : StrLess(r.timestamp, sorted[i].timestamp)}
        n == Cardinality(ahead)
    IN SubSeq(sorted, 1, n) \o <<r>> \o SubSeq(sorted, n + 1, Len(sorted))

\* list.sort(key=timestamp, reverse=True): stable, an element stays behind the
\* earlier elements whose key is not smaller than its own
InsertDesc(sorted, r) ==
    LET ahead == {i \in 1..Len(sorted) : ~StrLess(sorted[i].timestamp, r.timestamp)}
        n == Cardinality(ahead)
    IN SubSeq(sorted, 1, n) \o <<r>> \o SubSeq(sorted, n + 1, Len(sorted))

RECURSIVE SortDesc(_)
SortDesc(s) ==
    IF s = <<>> THEN <<>>
    ELSE InsertDesc(SortDesc(SubSeq(s, 1, Len(s) - 1)), s[Len(s)])

----------------------------------------------------------------------------
(* Ledger files *)

NoFile ==
    [exists |-> FALSE, valid |-> FALSE, object |-> FALSE, keys |-> {}, total_moves |-> 0,
     moves |-> <<>>, folders_created |-> <<>>]

\* a file whose content json.load cannot parse
Corrupt == [NoFile EXCEPT !.exists = TRUE]

\* a file whose content json.load parses to something that is not an object, as [] or null
NotAnObject == [NoFile EXCEPT !.exists = TRUE, !.valid = TRUE]

\* open(log_file) and json.load(f) both succeed
Loads(data) == data.exists /\ data.valid

\* what json.load gave has no get() and no keys
Misshapen(data) == Loads(data) /\ ~data.object

\* the object create_folders starts from when there is no ledger file
OnlyFolders == [exists |-> TRUE, valid |-> TRUE, object |-> TRUE, keys |-> {"folders_created"}, total_moves |-> 0,
                moves |-> <<>>, folders_created |-> <<>>]

FullKeys == {"timestamp", "base_directory", "total_moves", "moves", "folders_created"}

\* existing_data.get("moves", [])
GetMoves(data) == IF "moves" \in data.keys THEN data.moves ELSE <<>>

\* existing_data.get("folders_created", [])
GetFolders(data) == IF "folders_created" \in data.keys THEN data.folders_created ELSE <<>>

Records(data) == Len(GetMoves(data)) + Len(GetFolders(data))

\* the object move_files_to_dir starts from when there is no ledger file
NoMoves == [exists |-> TRUE, valid |-> TRUE, object |-> TRUE, keys |-> {"moves", "folders_created"}, total_moves |-> 0,
            moves |-> <<>>, folders_created |-> <<>>]

\* the time that passed during the first i readings of the clock in one call; ticks[j]
\* is the time that passes between the j-th reading and the next one
RECURSIVE Elapsed(_, _)
Elapsed(ticks, i) == IF i = 0 THEN 0 ELSE ticks[i] + Elapsed(ticks, i - 1)

----------------------------------------------------------------------------
(* create_folders(base_dir, folder_names, log_file) *)

\* a loop that notes every listed folder, made or found
RECURSIVE MakeFoldersNotingAll(_, _, _)
MakeFoldersNotingAll(acc, folder_names, log) ==
    IF folder_names = <<>> THEN acc
    ELSE LET folder_name == Head(folder_names)
             folder_path == Top(folder_name)
         IN MakeFoldersNotingAll(
                [fs |-> IF ~PathExists(acc.fs, folder_path)
                        THEN Put(acc.fs, folder_path, DirNode(log)) ELSE acc.fs,
                 created_folders |-> Append(acc.created_folders, folder_name)],
                Tail(folder_names), log)

\* the loop over folder_names: a folder is made, and noted, only when nothing is at its path
RECURSIVE MakeFolders(_, _, _)
MakeFolders(acc, folder_names, log) ==
    IF folder_names = <<>> THEN acc
    ELSE LET folder_name == Head(folder_names)
             folder_path == Top(folder_name)
         IN MakeFolders(
                IF ~PathExists(acc.fs, folder_path)
                THEN [fs |-> Put(acc.fs, folder_path, DirNode(log)),
                      created_folders |-> Append(acc.created_folders, folder_name)]
                ELSE acc,
                Tail(folder_names), log)

FolderEntry(folder_name, now) ==
    [timestamp |-> IsoFormat(now), action |-> "create_folder",
     folder_name |-> folder_name, folder_path |-> Top(folder_name)]

\* the logging block: nothing is written when no folder was made; a loaded object
\* without the key folders_created makes the append fail, which is only warned about
LogFolders(data, created_folders, now, ticks) ==
    LET existing_data == IF Loads(data) THEN data ELSE OnlyFolders
        entries == [i \in 1..Len(created_folders) |->
                        FolderEntry(created_folders[i], now + Elapsed(ticks, i - 1))]
    IN IF created_folders = <<>> THEN [file |-> data, clock |-> now, warned |-> FALSE]
       ELSE IF "folders_created" \notin existing_data.keys
            THEN [file |-> data, clock |-> now + Elapsed(ticks, 1), warned |-> TRUE]
            ELSE [file |-> [existing_data EXCEPT !.folders_created = @ \o entries],
                  clock |-> now + Elapsed(ticks, Len(created_folders)),
                  warned |-> FALSE]

create_folders(tree, data, now, folder_names, log, ticks) ==
    LET made == MakeFolders([fs |-> tree, created_folders |-> <<>>], folder_names, log)
        logged == LogFolders(data, made.created_folders, now, ticks)
    IN [fs |-> made.fs, file |-> logged.file, clock |-> logged.clock,
        created_folders |-> made.created_folders, warned |-> logged.warned]

----------------------------------------------------------------------------
(* move_files_to_dir(base_dir, files, target_dir, log_file) *)

\* the while loop: the first of <stem>_1<suffix>, <stem>_2<suffix>, ... that is unused
RECURSIVE UniqueName(_, _, _, _)
UniqueName(tree, target_path, name_parts, counter) ==
    LET target_file_path == Join(target_path, NewName(name_parts, counter)) IN
    IF PathExists(tree, target_file_path)
    THEN UniqueName(tree, target_path, name_parts, counter + 1)
    ELSE target_file_path

\* no look at what the target folder holds
ResolveTargetUnchecked(tree, target_path, filename) == Join(target_path, filename)

ResolveTarget(tree, target_path, filename) ==
    IF PathExists(tree, Join(target_path, filename))
    THEN UniqueName(tree, target_path, filename, 1)
    ELSE Join(target_path, filename)

\* a record of the path first asked for, not of the path the file was stored at
MoveEntryUnresolved(now, source_path, target_file_path, filename) ==
    [timestamp |-> IsoFormat(now), source |-> source_path,
     target |-> Join(SubSeq(target_file_path, 1, Len(target_file_path) - 1), filename),
     filename |-> filename]

MoveEntry(now, source_path, target_file_path, filename) ==
    [timestamp |-> IsoFormat(now), source |-> source_path,
     target |-> target_file_path, filename |-> filename]

\* one turn of the loop over files
MoveOne(acc, target_path, filename, ticks) ==
    LET source_path == Top(filename) IN
    IF PathExists(acc.fs, source_path)
    THEN LET target_file_path == ResolveTarget(acc.fs, target_path, filename)
             moved == ShutilMove(acc.fs, source_path, target_file_path)
             now == acc.clock
         IN IF moved.ok
            THEN [fs |-> moved.fs, clock |-> now + ticks[Len(acc.move_log) + 1],
                  move_log |-> Append(acc.move_log,
                                  MoveEntry(now, source_path, target_file_path, filename)),
                  errors |-> acc.errors]
            ELSE [acc EXCEPT !.errors =
                      Append(@, [msg |-> "Failed to move", filename |-> filename])]
    ELSE [acc EXCEPT !.errors =
              Append(@, [msg |-> "Source file not found", filename |-> filename])]

\* a loop that gives up at the first file it cannot move
RECURSIVE MoveEachAborting(_, _, _, _, _)
MoveEachAborting(acc, target_path, files, ticks, i) ==
    IF i > Len(files) \/ acc.errors # <<>> THEN acc
    ELSE MoveEachAborting(MoveOne(acc, target_path, files[i], ticks),
                          target_path, files, ticks, i + 1)

RECURSIVE MoveEach(_, _, _, _, _)
MoveEach(acc, target_path, files, ticks, i) ==
    IF i > Len(files) THEN acc
    ELSE MoveEach(MoveOne(acc, target_path, files[i], ticks), target_path, files, ticks, i + 1)

\* a logging block that writes the new moves alone
SaveMovesOverwriting(data, move_log) ==
    LET existing_data == IF Loads(data) THEN data ELSE NoMoves
    IN [exists |-> TRUE, valid |-> TRUE, object |-> TRUE, keys |-> FullKeys, total_moves |-> Len(move_log),
        moves |-> move_log, folders_created |-> GetFolders(existing_data)]

\* a logging block that counts the moves of this call alone
SaveMovesCountingCall(data, move_log) ==
    LET existing_data == IF Loads(data) THEN data ELSE NoMoves
        all_moves == GetMoves(existing_data) \o move_log
    IN [exists |-> TRUE, valid |-> TRUE, object |-> TRUE, keys |-> FullKeys,
        total_moves |-> Len(move_log),
        moves |-> all_moves, folders_created |-> GetFolders(existing_data)]

\* the logging block: the new moves go behind the moves already in the file
SaveMoves(data, move_log) ==
    LET existing_data == IF Loads(data) THEN data ELSE NoMoves
        all_moves == GetMoves(existing_data) \o move_log
    IN [exists |-> TRUE, valid |-> TRUE, object |-> TRUE, keys |-> FullKeys, total_moves |-> Len(all_moves),
        moves |-> all_moves, folders_created |-> GetFolders(existing_data)]

move_files_to_dir(tree, data, now, files, target_dir, ticks) ==
    LET target_path == Top(target_dir) IN
    IF PathExists(tree, target_path) /\ ~IsDir(tree, target_path)
    THEN \* target_path.mkdir(exist_ok=True) raises FileExistsError
         [raised |-> TRUE, fs |-> tree, file |-> data, clock |-> now,
          moves |-> <<>>, errors |-> <<>>]
    ELSE LET made == IF PathExists(tree, target_path) THEN tree
                     ELSE Put(tree, target_path, DirNode("move_files_to_dir"))
             done == MoveEach([fs |-> made, clock |-> now, move_log |-> <<>>, errors |-> <<>>],
                              target_path, files, ticks, 1)
         IN IF Misshapen(data)
            THEN \* existing_data.get raises inside the try block of the logging
                 [raised |-> FALSE, fs |-> done.fs, file |-> data,
                  clock |-> done.clock, moves |-> done.move_log,
                  errors |-> Append(done.errors, [msg |-> "Failed to save log file",
                                                  filename |-> NoName])]
            ELSE [raised |-> FALSE, fs |-> done.fs, file |-> SaveMoves(data, done.move_log),
                  clock |-> done.clock, moves |-> done.move_log, errors |-> done.errors]

----------------------------------------------------------------------------
(* revert_moves(log_file) *)

NoResult ==
    [reverted |-> <<>>, folders_removed |-> <<>>, errors |-> <<>>, not_found |-> <<>>]

\* source_path.parent.mkdir(parents=True, exist_ok=True): fails when a file is in the way
ParentReady(tree, path) ==
    LET parent == SubSeq(path, 1, Len(path) - 1) IN
    parent = <<>> \/ ~PathExists(tree, parent) \/ IsDir(tree, parent)

MakeParent(tree, path) ==
    LET parent == SubSeq(path, 1, Len(path) - 1) IN
    IF parent = <<>> \/ PathExists(tree, parent) THEN tree
    ELSE Put(tree, parent, DirNode("revert_moves"))

\* a turn that treats a missing target as a failure, and makes the folder of the source
\* before it looks for the target
RevertOneStrict(acc, move) ==
    LET source_path == move.source
        target_path == move.target
        ready == IF ParentReady(acc.fs, source_path) THEN MakeParent(acc.fs, source_path)
                 ELSE acc.fs
    IN [taken |-> Append(acc.taken, move)] @@
       IF PathExists(acc.fs, target_path) /\ ParentReady(acc.fs, source_path)
       THEN LET moved == ShutilMove(ready, target_path, source_path) IN
            IF moved.ok
            THEN [acc EXCEPT !.fs = moved.fs,
                             !.reverted = Append(@, [from |-> target_path, to |-> source_path])]
            ELSE [acc EXCEPT !.fs = ready,
                             !.errors = Append(@, [msg |-> "Failed to revert",
                                                   path |-> target_path])]
       ELSE [acc EXCEPT !.fs = ready,
                        !.errors = Append(@, [msg |-> "Failed to revert", path |-> target_path])]

\* one turn of the loop over the sorted moves
RevertOne(acc, move) ==
    LET source_path == move.source
        target_path == move.target
    IN [taken |-> Append(acc.taken, move)] @@
       IF PathExists(acc.fs, target_path)
       THEN IF ~ParentReady(acc.fs, source_path)
            THEN [acc EXCEPT !.errors =
                      Append(@, [msg |-> "Failed to revert", path |-> target_path])]
            ELSE LET moved == ShutilMove(MakeParent(acc.fs, source_path), target_path, source_path) IN
                 IF moved.ok
                 THEN [acc EXCEPT !.fs = moved.fs,
                                  !.reverted = Append(@, [from |-> target_path, to |-> source_path])]
                 ELSE [acc EXCEPT !.fs = MakeParent(acc.fs, source_path),
                                  !.errors = Append(@, [msg |-> "Failed to revert",
                                                        path |-> target_path])]
       ELSE [acc EXCEPT !.not_found =
                 Append(@, [msg |-> "Target file not found", path |-> target_path])]

RECURSIVE RevertEach(_, _)
RevertEach(acc, moves) ==
    IF moves = <<>> THEN acc
    ELSE RevertEach(RevertOne(acc, Head(moves)), Tail(moves))

\* a turn that removes the folder with whatever it holds
RemoveOneForced(acc, folder_entry) ==
    LET folder_path == folder_entry.folder_path IN
    IF IsDir(acc.fs, folder_path)
    THEN [acc EXCEPT !.fs = [p \in DOMAIN acc.fs \ ({folder_path} \cup Entries(acc.fs, folder_path))
                                |-> acc.fs[p]],
                     !.folders_removed = Append(@, folder_path)]
    ELSE [acc EXCEPT !.not_found =
              Append(@, [msg |-> "Folder not found or not a directory", path |-> folder_path])]

\* a turn that says nothing about a folder that is no longer there
RemoveOneSilent(acc, folder_entry) ==
    LET folder_path == folder_entry.folder_path IN
    IF IsDir(acc.fs, folder_path)
    THEN IF Entries(acc.fs, folder_path) = {}
         THEN [acc EXCEPT !.fs = Remove(acc.fs, folder_path),
                          !.folders_removed = Append(@, folder_path)]
         ELSE [acc EXCEPT !.errors =
                   Append(@, [msg |-> "Folder not empty, cannot remove", path |-> folder_path])]
    ELSE acc

\* one turn of the loop over the sorted folder records
RemoveOne(acc, folder_entry) ==
    LET folder_path == folder_entry.folder_path IN
    IF IsDir(acc.fs, folder_path)
    THEN IF Entries(acc.fs, folder_path) = {}
         THEN [acc EXCEPT !.fs = Remove(acc.fs, folder_path),
                          !.folders_removed = Append(@, folder_path)]
         ELSE [acc EXCEPT !.errors =
                   Append(@, [msg |-> "Folder not empty, cannot remove", path |-> folder_path])]
    ELSE [acc EXCEPT !.not_found =
              Append(@, [msg |-> "Folder not found or not a directory", path |-> folder_path])]

RECURSIVE RemoveEach(_, _)
RemoveEach(acc, folders_created) ==
    IF folders_created = <<>> THEN acc
    ELSE RemoveEach(RemoveOne(acc, Head(folders_created)), Tail(folders_created))

\* a reverter that reads the ledger outside its try block
revert_moves_unguarded(tree, data) ==
    LET results == [fs |-> tree, taken |-> <<>>, raised |-> FALSE] @@ NoResult
        files_done == RevertEach(results, SortDesc(GetMoves(data)))
        folders_done == RemoveEach(files_done, SortDesc(GetFolders(data)))
    IN IF ~Loads(data) THEN [results EXCEPT !.raised = TRUE] @@ [mid |-> tree]
       ELSE folders_done @@ [mid |-> files_done.fs]

\* a reverter that looks at the created folders before it restores the moves
revert_moves_folders_first(tree, data) ==
    LET results == [fs |-> tree, taken |-> <<>>, raised |-> FALSE] @@ NoResult
        moves == GetMoves(data)
        folders_created == GetFolders(data)
    IN IF ~Loads(data)
       THEN [results EXCEPT !.errors = <<[msg |-> "Failed to read log file", path |-> <<>>]>>]
            @@ [mid |-> tree]
       ELSE IF moves = <<>> /\ folders_created = <<>>
       THEN [results EXCEPT !.errors =
                 <<[msg |-> "No moves or folder creation found in log file", path |-> <<>>]>>]
            @@ [mid |-> tree]
       ELSE LET folders_done == RemoveEach(results, SortDesc(folders_created))
                files_done == RevertEach(folders_done, SortDesc(moves))
            IN files_done @@ [mid |-> folders_done.fs]

\* The result, with the tree it leaves, the tree between the two loops (mid) and the
\* moves in the order in which the loop took them (taken).
revert_moves(tree, data) ==
    LET results == [fs |-> tree, taken |-> <<>>, raised |-> FALSE] @@ NoResult
        moves == GetMoves(data)
        folders_created == GetFolders(data)
    IN IF ~Loads(data)
       THEN [results EXCEPT !.errors = <<[msg |-> "Failed to read log file", path |-> <<>>]>>]
            @@ [mid |-> tree]
       ELSE IF Misshapen(data)
       THEN \* log_data.get raises outside the try block
            [results EXCEPT !.raised = TRUE] @@ [mid |-> tree]
       ELSE IF moves = <<>> /\ folders_created = <<>>
       THEN [results EXCEPT !.errors =
                 <<[msg |-> "No moves or folder creation found in log file", path |-> <<>>]>>]
            @@ [mid |-> tree]
       ELSE LET files_done == RevertEach(results, SortDesc(moves))
                folders_done == RemoveEach(files_done, SortDesc(folders_created))
            IN folders_done @@ [mid |-> files_done.fs]

----------------------------------------------------------------------------
(* The state after construction: a directory holding some of the files, no ledger *)

\* the lists given to one call: every list over the names that is no longer than
\* the number of names, so every order, and a name given twice
Batches(names) == UNION {[1..n -> names] : n \in 0..Cardinality(names)}

\* the time that passes after each of n readings of the clock: nothing, or one tick
Ticks(n) == [1..n -> {0, 1}]

NoTicks(n) == [i \in 1..n |-> 0]

Quiet ==
    [op |-> "none", log |-> "", names |-> <<>>, target |-> NoName,
     pre |-> <<>>, mid |-> <<>>, file |-> NoFile,
     moves |-> <<>>, created_folders |-> <<>>, taken |-> <<>>,
     raised |-> FALSE, warned |-> FALSE, write_failed |-> FALSE,
     groups_processed |-> 0, files_moved |-> 0,
     answers |-> <<>>, status |-> 0, structural |-> FALSE,
     response |-> <<>>, asked |-> FALSE, invoked |-> FALSE, prev |-> "none"]
    @@ NoResult

\* the directory holds report.pdf, and notes.txt or not
Init ==
    /\ \E withNotes \in BOOLEAN :
          /\ fs = IF withNotes
                  THEN (Top(Name("report", ".pdf")) :> FileNode(1))
                       @@ (Top(Name("notes", ".txt")) :> FileNode(2))
                  ELSE (Top(Name("report", ".pdf")) :> FileNode(1))
          /\ origin = IF withNotes
                      THEN <<Top(Name("report", ".pdf")), Top(Name("notes", ".txt"))>>
                      ELSE <<Top(Name("report", ".pdf"))>>
          /\ nextId = IF withNotes THEN 3 ELSE 2
    /\ ledger = [l \in Ledgers |-> NoFile]
    /\ clock = 0
    /\ appended = [l \in Ledgers |-> <<>>]
    /\ undone = FALSE
    /\ last = Quiet
    /\ lists = [f \in ListFiles |-> <<>>]
    /\ saved = {}
    /\ faults = 0
    /\ groups = NoGroups

----------------------------------------------------------------------------
(* The calls of the library *)

CreateFolders(folder_names, log, ticks) ==
    \E r \in {create_folders(fs, ledger[log], clock, folder_names, log, ticks)} :
    /\ Records(r.file) <= MaxRecords
    /\ fs' = r.fs
    /\ ledger' = [ledger EXCEPT ![log] = r.file]
    /\ clock' = r.clock
    /\ last' = [Quiet EXCEPT !.op = "create_folders", !.log = log, !.names = folder_names,
                             !.pre = fs, !.file = ledger[log],
                             !.created_folders = r.created_folders, !.warned = r.warned]
    /\ UNCHANGED <<nextId, origin, appended, undone, lists, saved, faults, groups>>

MoveFilesToDir(files, target_dir, log, ticks) ==
    \E r \in {move_files_to_dir(fs, ledger[log], clock, files, target_dir, ticks)} :
    /\ Records(r.file) <= MaxRecords
    /\ fs' = r.fs
    /\ ledger' = [ledger EXCEPT ![log] = r.file]
    /\ clock' = r.clock
    /\ appended' = [appended EXCEPT ![log] = @ \o r.moves]
    /\ last' = [Quiet EXCEPT !.op = "move_files_to_dir", !.log = log, !.names = files,
                             !.target = target_dir, !.pre = fs, !.file = ledger[log],
                             !.moves = r.moves, !.errors = r.errors, !.raised = r.raised]
    /\ UNCHANGED <<nextId, origin, undone, lists, saved, faults, groups>>

RevertMoves(log) ==
    \E r \in {revert_moves(fs, ledger[log])} :
    /\ fs' = r.fs
    /\ last' = [Quiet EXCEPT !.op = "revert_moves", !.log = log, !.pre = fs, !.mid = r.mid,
                             !.file = ledger[log], !.taken = r.taken, !.raised = r.raised,
                             !.reverted = r.reverted, !.folders_removed = r.folders_removed,
                             !.errors = r.errors, !.not_found = r.not_found]
    /\ undone' = TRUE
    /\ UNCHANGED <<ledger, clock, nextId, origin, appended, lists, saved, faults, groups>>

(* The user, between two calls *)

Instants(data) ==
    {Instant(GetMoves(data)[i].timestamp) : i \in DOMAIN GetMoves(data)}
        \cup {Instant(GetFolders(data)[i].timestamp) : i \in DOMAIN GetFolders(data)}

\* what the user does takes time: the clock is past every recorded timestamp afterwards
Later == IF \E l \in Ledgers : clock \in Instants(ledger[l]) THEN clock + 1 ELSE clock

\* a new file appears in the base directory or in one of its folders
UserAddsFile(dir, name) ==
    /\ nextId <= MaxFiles
    /\ dir = <<>> \/ IsDir(fs, dir)
    /\ ~PathExists(fs, Join(dir, name))
    /\ fs' = Put(fs, Join(dir, name), FileNode(nextId))
    /\ origin' = Append(origin, Join(dir, name))
    /\ nextId' = nextId + 1
    /\ clock' = Later
    /\ last' = [Quiet EXCEPT !.op = "user", !.pre = fs]
    /\ UNCHANGED <<ledger, appended, undone, lists, saved, faults, groups>>

\* the readings of the clock a call makes: one for each folder it makes, one for each
\* file it moves
FolderReadings(folder_names) ==
    Len(MakeFolders([fs |-> fs, created_folders |-> <<>>], folder_names, "").created_folders)

MoveReadings(files, target_dir) ==
    Len(move_files_to_dir(fs, NoFile, 0, files, target_dir, NoTicks(Len(files))).moves)

Next ==
    \/ \E folder_names \in Batches(TargetDirs) :
          \E ticks \in Ticks(FolderReadings(folder_names)) :
             CreateFolders(folder_names, "move_log.json", ticks)
    \/ \E files \in Batches(FileNames), target_dir \in TargetDirs :
          \E ticks \in Ticks(MoveReadings(files, target_dir)) :
             MoveFilesToDir(files, target_dir, "move_log.json", ticks)
    \/ RevertMoves("move_log.json")
    \/ \E dir \in {<<>>} \cup {Top(d) : d \in TargetDirs}, name \in FileNames :
          UserAddsFile(dir, name)

Spec == Init /\ [][Next]_vars

(* The library called for either folder, in any order, on one ledger *)

NextInterleaved ==
    \/ \E folder_names \in Batches(FolderNames) :
          \E ticks \in Ticks(FolderReadings(folder_names)) :
             CreateFolders(folder_names, "move_log.json", ticks)
    \/ \E files \in Batches(FileNames), target_dir \in TargetDirs :
          \E ticks \in Ticks(MoveReadings(files, target_dir)) :
             MoveFilesToDir(files, target_dir, "move_log.json", ticks)
    \/ RevertMoves("move_log.json")
    \/ \E name \in FileNames : UserAddsFile(<<>>, name)

SpecInterleaved == Init /\ [][NextInterleaved]_vars

----------------------------------------------------------------------------
(* The library with a ledger that is damaged or cannot be written *)

\* the content of the ledger file is damaged outside the program
LedgerIsCorrupted(log) ==
    /\ ledger[log].exists
    /\ ledger[log] # Corrupt
    /\ ledger' = [ledger EXCEPT ![log] = Corrupt]
    /\ clock' = Later
    /\ last' = [Quiet EXCEPT !.op = "damage", !.log = log, !.pre = fs, !.file = ledger[log]]
    /\ UNCHANGED <<fs, nextId, origin, appended, undone, lists, saved, groups>>
    /\ faults < MaxFaults
    /\ faults' = faults + 1

\* create_folders when open(log_file, 'w') fails: the except clause prints a warning
create_folders_unwritable(tree, data, now, folder_names, log, ticks) ==
    LET r == create_folders(tree, data, now, folder_names, log, ticks) IN
    IF r.created_folders = <<>> THEN r ELSE [r EXCEPT !.file = data, !.warned = TRUE]

\* move_files_to_dir when open(log_file, 'w') fails: the except clause adds an error
move_files_to_dir_unwritable(tree, data, now, files, target_dir, ticks) ==
    LET r == move_files_to_dir(tree, data, now, files, target_dir, ticks) IN
    IF r.raised THEN r
    ELSE [r EXCEPT !.file = data,
                   !.errors = Append(@, [msg |-> "Failed to save log file", filename |-> NoName])]

CreateFoldersUnwritable(folder_names, log, ticks) ==
    \E r \in {create_folders_unwritable(fs, ledger[log], clock, folder_names, log, ticks)} :
    /\ r.created_folders # <<>>
    /\ fs' = r.fs
    /\ clock' = r.clock
    /\ last' = [Quiet EXCEPT !.op = "create_folders", !.log = log, !.names = folder_names,
                             !.pre = fs, !.file = ledger[log], !.write_failed = TRUE,
                             !.created_folders = r.created_folders, !.warned = r.warned]
    /\ UNCHANGED <<ledger, nextId, origin, appended, undone, lists, saved, groups>>
    /\ faults < MaxFaults
    /\ faults' = faults + 1

MoveFilesToDirUnwritable(files, target_dir, log, ticks) ==
    \E r \in {move_files_to_dir_unwritable(fs, ledger[log], clock, files, target_dir, ticks)} :
    /\ ~r.raised
    /\ fs' = r.fs
    /\ clock' = r.clock
    /\ last' = [Quiet EXCEPT !.op = "move_files_to_dir", !.log = log, !.names = files,
                             !.target = target_dir, !.pre = fs, !.file = ledger[log],
                             !.write_failed = TRUE,
                             !.moves = r.moves, !.errors = r.errors, !.raised = r.raised]
    /\ UNCHANGED <<ledger, nextId, origin, appended, undone, lists, saved, groups>>
    /\ faults < MaxFaults
    /\ faults' = faults + 1

NextFaults ==
    \/ Next
    \/ LedgerIsCorrupted("move_log.json")
    \/ \E folder_names \in Batches(TargetDirs) :
          \E ticks \in Ticks(FolderReadings(folder_names)) :
             CreateFoldersUnwritable(folder_names, "move_log.json", ticks)
    \/ \E files \in Batches(FileNames), target_dir \in TargetDirs :
          \E ticks \in Ticks(MoveReadings(files, target_dir)) :
             MoveFilesToDirUnwritable(files, target_dir, "move_log.json", ticks)

SpecFaults == Init /\ [][NextFaults]_vars

(* The library with a ledger whose content is damaged in either way *)

\* the content of the ledger file is replaced, outside the program, by JSON that is not
\* an object
LedgerIsMisshapen(log) ==
    /\ ledger[log].exists
    /\ ledger[log] # NotAnObject
    /\ ledger' = [ledger EXCEPT ![log] = NotAnObject]
    /\ clock' = Later
    /\ last' = [Quiet EXCEPT !.op = "damage", !.log = log, !.pre = fs, !.file = ledger[log]]
    /\ UNCHANGED <<fs, nextId, origin, appended, undone, lists, saved, groups>>
    /\ faults < MaxFaults
    /\ faults' = faults + 1

NextDamage ==
    \/ Next
    \/ LedgerIsCorrupted("move_log.json")
    \/ LedgerIsMisshapen("move_log.json")

SpecDamage == Init /\ [][NextDamage]_vars

----------------------------------------------------------------------------
(* The commands of dlm.py on one directory *)

Range(s) == {s[i] : i \in DOMAIN s}

\* the names in the order sorted() gives the first-level files
SortedNames == <<Name("notes", ".txt"), Name("report", ".pdf")>>

InList(name, flagged) == name \in flagged

\* the files directly under the directory, folders left out, sorted
get_first_level_files(tree) ==
    SelectSeq(SortedNames, LAMBDA name : IsFile(tree, Top(name)))

\* --batch-size when the option is not given
DefaultBatchSize == 100

NumBatches(files, batch_size) == (Len(files) + batch_size - 1) \div batch_size

\* files[i : i + batch_size] of the k-th turn of the loop
BatchFiles(files, batch_size, k) ==
    SubSeq(files, (k - 1) * batch_size + 1,
           IF k * batch_size < Len(files) THEN k * batch_size ELSE Len(files))

\* what the classifier may do with the batches: fail on a batch, or flag some of its files
Answers(files, batch_size, outcomes) ==
    {answers \in [1..NumBatches(files, batch_size) ->
                     [failed : outcomes, flagged : SUBSET Range(files)]] :
        \A k \in 1..NumBatches(files, batch_size) :
            /\ answers[k].flagged \subseteq Range(BatchFiles(files, batch_size, k))
            /\ answers[k].failed => answers[k].flagged = {}}

ClassifierFailed(answers) == \E k \in DOMAIN answers : answers[k].failed

\* an analysis that keeps what the batches before the failed one gave
RECURSIVE run_gemini_batch_analysis_partial(_, _, _, _, _)
run_gemini_batch_analysis_partial(files, batch_size, answers, k, all_results) ==
    IF k > NumBatches(files, batch_size) \/ answers[k].failed
    THEN [error |-> FALSE, file_analysis |-> all_results]
    ELSE run_gemini_batch_analysis_partial(
             files, batch_size, answers, k + 1,
             all_results \o SelectSeq(BatchFiles(files, batch_size, k),
                                      LAMBDA name : InList(name, answers[k].flagged)))

\* the loop over the batches from the k-th on; file_analysis holds the flagged names
RECURSIVE run_gemini_batch_analysis(_, _, _, _, _)
run_gemini_batch_analysis(files, batch_size, answers, k, all_results) ==
    IF k > NumBatches(files, batch_size)
    THEN [error |-> FALSE, file_analysis |-> all_results]
    ELSE IF answers[k].failed
    THEN [error |-> TRUE, file_analysis |-> <<>>]
    ELSE run_gemini_batch_analysis(
             files, batch_size, answers, k + 1,
             all_results \o SelectSeq(BatchFiles(files, batch_size, k),
                                      LAMBDA name : InList(name, answers[k].flagged)))

\* the exit status of main: 1 for a bad directory or an exception, 0 otherwise
ExitStatus(directory_ok, raised) == IF ~directory_ok \/ raised THEN 1 ELSE 0

\* what the user may type at the question; a string is the sequence of its characters
Responses ==
    {<<"y">>, <<"Y">>, <<"y", "e", "s">>, <<" ", "Y", "e", "s", " ">>,
     <<"y", "e", "p">>, <<"n">>, <<>>}

\* str.strip()
RECURSIVE LStrip(_)
LStrip(str) == IF str # <<>> /\ Head(str) = " " THEN LStrip(Tail(str)) ELSE str

RECURSIVE RStrip(_)
RStrip(str) ==
    IF str # <<>> /\ str[Len(str)] = " " THEN RStrip(SubSeq(str, 1, Len(str) - 1)) ELSE str

Strip(str) == RStrip(LStrip(str))

\* str.lower(), for the letters of the responses
LowerChar(ch) == CASE ch = "Y" -> "y" [] ch = "E" -> "e" [] ch = "S" -> "s"
                   [] ch = "N" -> "n" [] ch = "P" -> "p" [] OTHER -> ch

Lower(str) == [i \in DOMAIN str |-> LowerChar(str[i])]

\* response in ['y', 'yes'] after strip() and lower()
Confirmed(response) == Lower(Strip(response)) \in {<<"y">>, <<"y", "e", "s">>}

\* the list files of .dlm/ and what they hold
ListState == [lists |-> lists, saved |-> saved]

\* a find command that runs the analysis without asking
find_files_unasked(list_state, tree, list_file, response, batch_size, answers) ==
    LET results == run_gemini_batch_analysis(get_first_level_files(tree), batch_size,
                                             answers, 1, <<>>)
    IN [lists |-> IF results.error THEN list_state.lists
                  ELSE [list_state.lists EXCEPT ![list_file] = results.file_analysis],
        saved |-> IF results.error THEN list_state.saved
                  ELSE list_state.saved \cup {list_file},
        asked |-> FALSE, invoked |-> TRUE]

\* find_important_files / find_trash_files on the list files list_state: when the list
\* file exists the user is asked first, and anything but y or yes ends the command; the
\* flagged names replace the list file, unless the analysis returned an error
find_files(list_state, tree, list_file, response, batch_size, answers) ==
    IF list_file \in list_state.saved /\ ~Confirmed(response)
    THEN [lists |-> list_state.lists, saved |-> list_state.saved,
          asked |-> TRUE, invoked |-> FALSE]
    ELSE LET results == run_gemini_batch_analysis(get_first_level_files(tree), batch_size,
                                                  answers, 1, <<>>)
         IN [lists |-> IF results.error THEN list_state.lists
                       ELSE [list_state.lists EXCEPT ![list_file] = results.file_analysis],
             saved |-> IF results.error THEN list_state.saved
                       ELSE list_state.saved \cup {list_file},
             asked |-> list_file \in list_state.saved, invoked |-> TRUE]

FindFiles(list_file, response, batch_size, answers) ==
    \E r \in {find_files(ListState, fs, list_file, response, batch_size, answers)} :
    /\ lists' = r.lists
    /\ saved' = r.saved
    /\ last' = [Quiet EXCEPT !.op = "find", !.log = list_file, !.pre = fs,
                             !.answers = IF r.invoked THEN answers ELSE <<>>,
                             !.response = response,
                             !.asked = r.asked, !.invoked = r.invoked,
                             !.structural = r.invoked /\ ClassifierFailed(answers),
                             !.status = ExitStatus(TRUE, FALSE)]
    /\ UNCHANGED <<fs, ledger, clock, nextId, origin, appended, undone, faults, groups>>

\* the answer of a user who wants the analysis run again
Yes == <<"y">>

find_important_files(response, batch_size, answers) ==
    FindFiles("important_files.txt", response, batch_size, answers)

find_trash_files(response, batch_size, answers) ==
    FindFiles("trash_files.txt", response, batch_size, answers)

\* an organize that leaves the making of the folders to move_files_to_dir
initial_organize_files_unlogged(tree, data, now, important_files, trash_files, tf, ti, tt) ==
    LET first == IF important_files # <<>>
                 THEN move_files_to_dir(tree, data, now, important_files,
                                        Name("important", ""), ti)
                 ELSE [raised |-> FALSE, fs |-> tree, file |-> data, clock |-> now,
                       moves |-> <<>>, errors |-> <<>>]
        second == IF trash_files # <<>> /\ ~first.raised
                  THEN move_files_to_dir(first.fs, first.file, first.clock, trash_files,
                                         Name("trash", ""), tt)
                  ELSE [first EXCEPT !.moves = <<>>, !.errors = <<>>]
    IN [fs |-> second.fs, file |-> second.file, clock |-> second.clock,
        created_folders |-> <<>>, moves |-> first.moves \o second.moves,
        errors |-> first.errors \o second.errors, raised |-> second.raised]

\* an organize that moves the trash files before the important files
initial_organize_files_trash_first(tree, data, now, important_files, trash_files, tf, ti, tt) ==
    LET folders_to_create ==
            (IF important_files # <<>> THEN <<Name("important", "")>> ELSE <<>>)
            \o (IF trash_files # <<>> THEN <<Name("trash", "")>> ELSE <<>>)
        made == create_folders(tree, data, now, folders_to_create, "move_log.json", tf)
        none == [raised |-> FALSE, fs |-> made.fs, file |-> made.file, clock |-> made.clock,
                 moves |-> <<>>, errors |-> <<>>]
        first == IF trash_files # <<>>
                 THEN move_files_to_dir(made.fs, made.file, made.clock, trash_files,
                                        Name("trash", ""), tt)
                 ELSE none
        second == IF important_files # <<>> /\ ~first.raised
                  THEN move_files_to_dir(first.fs, first.file, first.clock, important_files,
                                         Name("important", ""), ti)
                  ELSE [first EXCEPT !.moves = <<>>, !.errors = <<>>]
    IN [fs |-> second.fs, file |-> second.file, clock |-> second.clock,
        created_folders |-> made.created_folders, moves |-> first.moves \o second.moves,
        errors |-> first.errors \o second.errors, raised |-> second.raised]

\* organize: the folders of the non-empty lists, then the important files, then the
\* trash files, all on move_log.json
initial_organize_files(tree, data, now, important_files, trash_files, tf, ti, tt) ==
    LET folders_to_create ==
            (IF important_files # <<>> THEN <<Name("important", "")>> ELSE <<>>)
            \o (IF trash_files # <<>> THEN <<Name("trash", "")>> ELSE <<>>)
        made == create_folders(tree, data, now, folders_to_create, "move_log.json", tf)
        none == [raised |-> FALSE, fs |-> made.fs, file |-> made.file, clock |-> made.clock,
                 moves |-> <<>>, errors |-> <<>>]
        first == IF important_files # <<>>
                 THEN move_files_to_dir(made.fs, made.file, made.clock, important_files,
                                        Name("important", ""), ti)
                 ELSE none
        second == IF trash_files # <<>> /\ ~first.raised
                  THEN move_files_to_dir(first.fs, first.file, first.clock, trash_files,
                                         Name("trash", ""), tt)
                  ELSE [first EXCEPT !.moves = <<>>, !.errors = <<>>]
    IN [fs |-> second.fs, file |-> second.file, clock |-> second.clock,
        created_folders |-> made.created_folders, moves |-> first.moves \o second.moves,
        errors |-> first.errors \o second.errors, raised |-> second.raised]

InitialOrganizeFiles(tf, ti, tt) ==
    /\ lists["important_files.txt"] # <<>> \/ lists["trash_files.txt"] # <<>>
    /\ \E r \in {initial_organize_files(fs, ledger["move_log.json"], clock,
                                        lists["important_files.txt"],
                                        lists["trash_files.txt"], tf, ti, tt)} :
       /\ Records(r.file) <= MaxRecords
       /\ fs' = r.fs
       /\ ledger' = [ledger EXCEPT !["move_log.json"] = r.file]
       /\ clock' = r.clock
       /\ appended' = [appended EXCEPT !["move_log.json"] = @ \o r.moves]
       /\ last' = [Quiet EXCEPT !.op = "initial_organize_files", !.log = "move_log.json",
                                !.pre = fs, !.file = ledger["move_log.json"],
                                !.created_folders = r.created_folders, !.moves = r.moves,
                                !.errors = r.errors, !.raised = r.raised,
                                !.status = ExitStatus(TRUE, r.raised)]
    /\ UNCHANGED <<nextId, origin, undone, lists, saved, faults, groups>>

\* the classification state of .dlm/: the list files and groups.json
Classification == [lists |-> lists, groups |-> groups]

\* a revert that clears the ledger after a reversal without errors
revert_organization_clearing(tree, data, classification) ==
    LET result == revert_moves(tree, data) IN
    result @@ [file |-> IF result.errors = <<>> THEN NoFile ELSE data]

\* a revert that restores only the files that are still on a list
revert_organization_listed(tree, data, classification) ==
    LET listed == Range(classification.lists["important_files.txt"])
                      \cup Range(classification.lists["trash_files.txt"])
    IN revert_moves(tree, [data EXCEPT !.moves = SelectSeq(@, LAMBDA m : m.filename \in listed)])
       @@ [file |-> data]

\* revert_organization(directory): of all that .dlm/ holds it reads move_log.json alone,
\* and it leaves that file as it is
revert_organization(tree, data, classification) ==
    revert_moves(tree, data) @@ [file |-> data]

\* revert: nothing without move_log.json; the ledger stays in .dlm/ afterwards
RevertOrganization ==
    /\ ledger["move_log.json"].exists
    /\ \E r \in {revert_organization(fs, ledger["move_log.json"], Classification)} :
       /\ fs' = r.fs
       /\ ledger' = [ledger EXCEPT !["move_log.json"] = r.file]
       /\ last' = [Quiet EXCEPT !.op = "revert_organization", !.log = "move_log.json",
                                !.pre = fs, !.mid = r.mid, !.file = ledger["move_log.json"],
                                !.taken = r.taken, !.reverted = r.reverted,
                                !.raised = r.raised,
                                !.folders_removed = r.folders_removed,
                                !.errors = r.errors, !.not_found = r.not_found,
                                !.structural = ~Loads(ledger["move_log.json"]),
                                !.status = ExitStatus(TRUE, r.raised),
                                !.prev = last.op]
    /\ undone' = TRUE
    /\ UNCHANGED <<clock, nextId, origin, appended, lists, saved, faults, groups>>

\* the user makes a folder of their own in the directory
UserMakesFolder(name) ==
    /\ ~PathExists(fs, Top(name))
    /\ fs' = Put(fs, Top(name), DirNode("user"))
    /\ clock' = Later
    /\ last' = [Quiet EXCEPT !.op = "user", !.pre = fs]
    /\ UNCHANGED <<ledger, nextId, origin, appended, undone, lists, saved, faults, groups>>

NextCLI ==
    \/ \E answers \in Answers(get_first_level_files(fs), DefaultBatchSize, {FALSE}) :
          find_important_files(Yes, DefaultBatchSize, answers)
    \/ \E answers \in Answers(get_first_level_files(fs), DefaultBatchSize, {FALSE}) :
          find_trash_files(Yes, DefaultBatchSize, answers)
    \/ \E tf \in Ticks(Cardinality(FolderNames)),
          ti \in Ticks(Len(lists["important_files.txt"])),
          tt \in Ticks(Len(lists["trash_files.txt"])) :
          InitialOrganizeFiles(tf, ti, tt)
    \/ RevertOrganization
    \/ \E dir \in {<<>>} \cup {Top(d) : d \in FolderNames}, name \in FileNames :
          UserAddsFile(dir, name)
    \/ \E name \in FolderNames : UserMakesFolder(name)

SpecCLI == Init /\ [][NextCLI]_vars

(* The commands with a classifier that may fail, batches of one file, and a directory
   argument that may be wrong *)

\* main with a directory that does not exist or is not a directory
MainBadDirectory ==
    /\ last' = [Quiet EXCEPT !.op = "main", !.pre = fs, !.structural = TRUE,
                             !.status = ExitStatus(FALSE, FALSE)]
    /\ UNCHANGED <<fs, ledger, clock, nextId, origin, appended, undone, lists, saved, faults, groups>>

NextStatus ==
    \/ \E batch_size \in {1, DefaultBatchSize} :
          \E answers \in Answers(get_first_level_files(fs), batch_size, BOOLEAN) :
             find_important_files(Yes, batch_size, answers)
    \/ \E batch_size \in {1, DefaultBatchSize} :
          \E answers \in Answers(get_first_level_files(fs), batch_size, BOOLEAN) :
             find_trash_files(Yes, batch_size, answers)
    \/ \E tf \in Ticks(Cardinality(FolderNames)),
          ti \in Ticks(Len(lists["important_files.txt"])),
          tt \in Ticks(Len(lists["trash_files.txt"])) :
          InitialOrganizeFiles(tf, ti, tt)
    \/ RevertOrganization
    \/ MainBadDirectory
    \/ \E name \in FileNames : UserAddsFile(<<>>, name)

SpecStatus == Init /\ [][NextStatus]_vars

(* The find commands with a user who answers the question in any way *)

NextAsk ==
    \/ \E response \in Responses :
          \E answers \in Answers(get_first_level_files(fs), DefaultBatchSize, {FALSE}) :
             find_important_files(response, DefaultBatchSize, answers)
    \/ \E response \in Responses :
          \E answers \in Answers(get_first_level_files(fs), DefaultBatchSize, {FALSE}) :
             find_trash_files(response, DefaultBatchSize, answers)
    \/ \E name \in FileNames : UserAddsFile(<<>>, name)

SpecAsk == Init /\ [][NextAsk]_vars

----------------------------------------------------------------------------
(* The group commands of dlm.py and group_organizer.py *)

\* one ledger file for both kinds of run
GroupLogShared == "move_log.json"

GroupLog == "group_move_log.json"

\* one group of an analysis; a group without a suggested folder has NoName there
Group(files, suggested_folder) ==
    [group_name |-> "group", files |-> files, suggested_folder |-> suggested_folder,
     lacks |-> {}]

\* a group descriptor without one of the keys that organize_by_groups subscripts
MalformedGroup(missing_key, suggested_folder) ==
    [group_name |-> "", files |-> <<>>, suggested_folder |-> suggested_folder,
     lacks |-> {missing_key}]

\* group['group_name'] or group['files'] raises KeyError
IsMalformed(group) == group.lacks \cap {"group_name", "files"} # {}

\* the non-empty lists of first-level files, in sorted order
FileLists(tree) ==
    {SelectSeq(get_first_level_files(tree), LAMBDA name : InList(name, chosen)) :
        chosen \in SUBSET Range(get_first_level_files(tree)) \ {{}}}

\* what the group analysis may answer for the files of the directory, with suggested
\* folders among folders
GroupAnswersAmong(tree, folders) ==
    UNION {[1..n -> {Group(files, folder) : files \in FileLists(tree),
                                            folder \in folders \cup {NoName}}] :
           n \in 0..MaxGroups}

GroupAnswers(tree) == GroupAnswersAmong(tree, GroupFolders)

\* group_analysis: without first-level files, or when the classifier fails, nothing is
\* saved; otherwise the groups of the answer replace groups.json
group_analysis(groups_file, tree, failed, answer) ==
    IF get_first_level_files(tree) = <<>> \/ failed THEN groups_file
    ELSE [exists |-> TRUE, groups |-> answer]

\* an answer with one malformed descriptor, before or behind the groups of an answer
MalformedAnswers(tree) ==
    {<<bad>> \o answer : bad \in {MalformedGroup(k, f) : k \in {"group_name", "files"},
                                                         f \in GroupFolders \cup {NoName}},
                         answer \in GroupAnswers(tree)}
    \cup {answer \o <<bad>> : bad \in {MalformedGroup(k, f) : k \in {"group_name", "files"},
                                                              f \in GroupFolders \cup {NoName}},
                              answer \in GroupAnswers(tree)}

\* find-groups with a classifier that answers; groups.json is written before the summary
\* of the groups, which raises KeyError on a malformed descriptor
find_groups(answer) ==
    /\ get_first_level_files(fs) # <<>>
    /\ groups' = group_analysis(groups, fs, FALSE, answer)
    /\ last' = [Quiet EXCEPT !.op = "find_groups", !.pre = fs,
                             !.raised = \E i \in DOMAIN answer : IsMalformed(answer[i]),
                             !.status = ExitStatus(TRUE, \E i \in DOMAIN answer :
                                                            IsMalformed(answer[i]))]
    /\ UNCHANGED <<fs, ledger, clock, nextId, origin, appended, undone, lists, saved, faults>>

\* sorted(list(folders)) of the folders the groups suggest
get_suggested_folders(group_list) ==
    SelectSeq(SortedFolders,
              LAMBDA folder : \E i \in DOMAIN group_list : group_list[i].suggested_folder = folder)

\* a turn that moves the files of the group and leaves the ledger as it was
OrganizeGroupUnlogged(acc, group, ticks) ==
    IF acc.raised THEN acc
    ELSE IF IsMalformed(group) THEN [acc EXCEPT !.raised = TRUE]
    ELSE IF group.suggested_folder # NoName
    THEN LET result == move_files_to_dir(acc.fs, acc.file, acc.clock, group.files,
                                         group.suggested_folder, ticks)
         IN IF result.raised THEN [acc EXCEPT !.raised = TRUE]
            ELSE [acc EXCEPT !.fs = result.fs, !.clock = result.clock,
                             !.moves = @ \o result.moves,
                             !.files_moved = @ + Len(result.moves),
                             !.groups_processed = @ + 1,
                             !.errors = @ \o result.errors]
    ELSE [acc EXCEPT !.groups_processed = @ + 1]

\* a turn that passes over a group without a suggested folder and does not count it
OrganizeGroupSkipping(acc, group, ticks) ==
    IF acc.raised THEN acc
    ELSE IF IsMalformed(group) THEN [acc EXCEPT !.raised = TRUE]
    ELSE IF group.suggested_folder # NoName
    THEN LET result == move_files_to_dir(acc.fs, acc.file, acc.clock, group.files,
                                         group.suggested_folder, ticks)
         IN IF result.raised THEN [acc EXCEPT !.raised = TRUE]
            ELSE [acc EXCEPT !.fs = result.fs, !.file = result.file, !.clock = result.clock,
                             !.moves = @ \o result.moves,
                             !.files_moved = @ + Len(result.moves),
                             !.groups_processed = @ + 1,
                             !.errors = @ \o result.errors]
    ELSE acc

\* one turn of the loop over the groups
OrganizeGroup(acc, group, ticks) ==
    IF acc.raised THEN acc
    ELSE IF IsMalformed(group) THEN [acc EXCEPT !.raised = TRUE]
    ELSE IF group.suggested_folder # NoName
    THEN LET result == move_files_to_dir(acc.fs, acc.file, acc.clock, group.files,
                                         group.suggested_folder, ticks)
         IN IF result.raised THEN [acc EXCEPT !.raised = TRUE]
            ELSE [acc EXCEPT !.fs = result.fs, !.file = result.file, !.clock = result.clock,
                             !.moves = @ \o result.moves,
                             !.files_moved = @ + Len(result.moves),
                             !.groups_processed = @ + 1,
                             !.errors = @ \o result.errors]
    ELSE [acc EXCEPT !.groups_processed = @ + 1]

RECURSIVE OrganizeEach(_, _, _, _)
OrganizeEach(acc, group_list, tg, i) ==
    IF i > Len(group_list) THEN acc
    ELSE OrganizeEach(OrganizeGroup(acc, group_list[i], tg[i]), group_list, tg, i + 1)

\* organize_by_groups(directory) with the default log file
organize_by_groups(tree, data, now, groups_file, log, tf, tg) ==
    LET group_list == groups_file.groups
        untouched == [error |-> TRUE, fs |-> tree, file |-> data, clock |-> now,
                      created_folders |-> <<>>, moves |-> <<>>, errors |-> <<>>,
                      raised |-> FALSE, groups_processed |-> 0, files_moved |-> 0]
    IN IF ~groups_file.exists \/ group_list = <<>> THEN untouched
       ELSE LET made == create_folders(tree, data, now, get_suggested_folders(group_list),
                                       log, tf)
            IN OrganizeEach([untouched EXCEPT !.error = FALSE, !.fs = made.fs,
                                              !.file = made.file, !.clock = made.clock,
                                              !.created_folders = made.created_folders],
                            group_list, tg, 1)

\* the time that passes after the readings of each group's moves
GroupTicks(group_list) ==
    {tg \in [1..Len(group_list) -> UNION {Ticks(n) : n \in 0..Cardinality(FileNames)}] :
        \A i \in 1..Len(group_list) : tg[i] \in Ticks(Len(group_list[i].files))}

OrganizeGroups(tf, tg) ==
    \E r \in {organize_by_groups(fs, ledger[GroupLog], clock, groups, GroupLog, tf, tg)} :
    /\ ~r.error
    /\ Records(r.file) <= MaxRecords
    /\ r.clock <= MaxClock \/ r.clock = clock
    /\ fs' = r.fs
    /\ ledger' = [ledger EXCEPT ![GroupLog] = r.file]
    /\ clock' = r.clock
    /\ appended' = [appended EXCEPT ![GroupLog] = @ \o r.moves]
    /\ last' = [Quiet EXCEPT !.op = "organize_groups", !.log = GroupLog,
                             !.pre = fs, !.file = ledger[GroupLog],
                             !.created_folders = r.created_folders, !.moves = r.moves,
                             !.errors = r.errors, !.raised = r.raised,
                             !.groups_processed = r.groups_processed,
                             !.files_moved = r.files_moved,
                             !.status = ExitStatus(TRUE, r.raised)]
    /\ UNCHANGED <<nextId, origin, undone, lists, saved, faults, groups>>

\* the keys of the result of revert_moves
ResultKeys == {"reverted", "folders_removed", "errors", "not_found"}

\* revert_group_organization: the ledger is unlinked unless the result has an "error"
revert_group_organization(tree, data) ==
    LET result == revert_moves(tree, data) IN
    result @@ [file |-> IF "error" \notin ResultKeys THEN NoFile ELSE data]

\* revert-groups: nothing without group_move_log.json
RevertGroups ==
    /\ ledger[GroupLog].exists
    /\ \E r \in {revert_group_organization(fs, ledger[GroupLog])} :
       /\ fs' = r.fs
       /\ ledger' = [ledger EXCEPT ![GroupLog] = r.file]
       /\ appended' = [appended EXCEPT ![GroupLog] = IF r.file.exists THEN @ ELSE <<>>]
       /\ last' = [Quiet EXCEPT !.op = "revert_groups", !.log = GroupLog,
                                !.pre = fs, !.mid = r.mid, !.file = ledger[GroupLog],
                                !.taken = r.taken, !.reverted = r.reverted,
                                !.raised = r.raised,
                                !.folders_removed = r.folders_removed,
                                !.errors = r.errors, !.not_found = r.not_found]
    /\ undone' = TRUE
    /\ UNCHANGED <<clock, nextId, origin, lists, saved, faults, groups>>

NextGroups ==
    \/ \E answer \in GroupAnswers(fs) : find_groups(answer)
    \/ \E tf \in Ticks(Cardinality(GroupFolders)), tg \in GroupTicks(groups.groups) :
          OrganizeGroups(tf, tg)
    \/ RevertGroups
    \/ \E dir \in {<<>>} \cup {Top(d) : d \in GroupFolders}, name \in FileNames :
          UserAddsFile(dir, name)

SpecGroups == Init /\ [][NextGroups]_vars

(* The group commands with a group analysis that may hold a malformed descriptor *)

NextMalformed ==
    \/ \E answer \in GroupAnswers(fs) \cup MalformedAnswers(fs) : find_groups(answer)
    \/ \E tf \in Ticks(Cardinality(GroupFolders)), tg \in GroupTicks(groups.groups) :
          OrganizeGroups(tf, tg)
    \/ RevertGroups

SpecMalformed == Init /\ [][NextMalformed]_vars

(* The group commands with an analysis of several groups, with and without a suggested
   folder, that may name the same file *)

MixedAnswers(tree) ==
    UNION {[1..n -> {Group(files, folder) : files \in FileLists(tree),
                                            folder \in GroupFolders \cup {NoName}}] :
           n \in 1..MaxMixed}

NextMixed ==
    \/ \E answer \in MixedAnswers(fs) : find_groups(answer)
    \/ \E tf \in Ticks(Cardinality(GroupFolders)), tg \in GroupTicks(groups.groups) :
          OrganizeGroups(tf, tg)
    \/ RevertGroups
    \/ \E name \in FileNames : UserAddsFile(<<>>, name)

SpecMixed == Init /\ [][NextMixed]_vars

(* The commands of both kinds of run on one directory: a run of each kind, with the
   important list alone and without the user changing the directory in between *)

NextBoth ==
    \/ \E answers \in Answers(get_first_level_files(fs), DefaultBatchSize, {FALSE}) :
          find_important_files(Yes, DefaultBatchSize, answers)
    \/ \E ti \in Ticks(Len(lists["important_files.txt"])) :
          \E tf \in Ticks(1) : InitialOrganizeFiles(tf, ti, NoTicks(0))
    \/ RevertOrganization
    \/ \E answer \in GroupAnswers(fs) : find_groups(answer)
    \/ \E tf \in Ticks(Cardinality(GroupFolders)), tg \in GroupTicks(groups.groups) :
          OrganizeGroups(tf, tg)
    \/ RevertGroups

SpecBoth == Init /\ [][NextBoth]_vars

(* organize-all and revert-all on a directory that nobody else changes: the directory
   is organized, once or several times, and then reverted *)

\* the clock stands still during a command, or it advances after every reading
Pace(pace, n) == [i \in 1..n |-> pace]

\* nothing to revert: the ledger file is not there
NotReverted(tree, data) ==
    [fs |-> tree, taken |-> <<>>, raised |-> FALSE, mid |-> tree, file |-> data] @@ NoResult

\* organize_all: find-all, initial-organize, find-groups and organize-groups, one after
\* the other; a step that only printed an error does not stop the next one
OrganizeAll(ri, rt, batch_size, ai, at, pace) ==
    \E f1 \in {find_files(ListState, fs, "important_files.txt", ri, batch_size, ai)} :
    \E f2 \in {find_files(f1, fs, "trash_files.txt", rt, batch_size, at)} :
    \E o \in {initial_organize_files(fs, ledger["move_log.json"], clock,
                                      f2.lists["important_files.txt"],
                                      f2.lists["trash_files.txt"],
                                      Pace(pace, Cardinality(FolderNames)),
                                      Pace(pace, Cardinality(FileNames)),
                                      Pace(pace, Cardinality(FileNames)))} :
    \E gfailed \in BOOLEAN :
    \E answer \in IF gfailed THEN {<<>>}
                  ELSE GroupAnswersAmong(o.fs, Range(SortedFolders)) :
    \E g \in {group_analysis(groups, o.fs, gfailed, answer)} :
    \E og \in {organize_by_groups(o.fs, ledger[GroupLog], o.clock, g, GroupLog,
                                   Pace(pace, Len(SortedFolders)),
                                   [i \in 1..Len(g.groups) |->
                                       Pace(pace, Cardinality(FileNames))])} :
    /\ ~undone
    /\ ~o.raised /\ ~og.raised
    /\ Records(o.file) <= MaxRecords
    /\ Records(og.file) <= MaxRecords
    /\ og.clock <= MaxTime
    /\ fs' = og.fs
    /\ ledger' = [ledger EXCEPT !["move_log.json"] = o.file, ![GroupLog] = og.file]
    /\ clock' = og.clock
    /\ lists' = f2.lists
    /\ saved' = f2.saved
    /\ groups' = g
    /\ appended' = [appended EXCEPT !["move_log.json"] = @ \o o.moves,
                                    ![GroupLog] = @ \o og.moves]
    /\ last' = [Quiet EXCEPT !.op = "organize_all", !.pre = fs, !.mid = o.fs,
                             !.created_folders = o.created_folders \o og.created_folders,
                             !.moves = o.moves \o og.moves,
                             !.errors = o.errors \o og.errors,
                             !.structural = \/ f1.invoked /\ ClassifierFailed(ai)
                                            \/ f2.invoked /\ ClassifierFailed(at),
                             !.status = ExitStatus(TRUE, FALSE)]
    /\ UNCHANGED <<nextId, origin, undone, faults>>

\* revert_all: revert of the initial run when move_log.json is there, then revert of the
\* group run when group_move_log.json is there
RevertAll ==
    \E a \in {IF ledger["move_log.json"].exists
              THEN revert_organization(fs, ledger["move_log.json"], Classification)
              ELSE NotReverted(fs, ledger["move_log.json"])} :
    \E b \in {IF ledger[GroupLog].exists
              THEN revert_group_organization(a.fs, ledger[GroupLog])
              ELSE NotReverted(a.fs, ledger[GroupLog])} :
    /\ ~a.raised /\ ~b.raised
    /\ fs' = b.fs
    /\ ledger' = [ledger EXCEPT !["move_log.json"] = a.file, ![GroupLog] = b.file]
    /\ appended' = [appended EXCEPT ![GroupLog] = IF b.file.exists THEN @ ELSE <<>>]
    /\ last' = [Quiet EXCEPT !.op = "revert_all", !.pre = fs, !.mid = a.fs,
                             !.prev = last.op,
                             !.reverted = a.reverted \o b.reverted,
                             !.folders_removed = a.folders_removed \o b.folders_removed,
                             !.errors = a.errors \o b.errors,
                             !.not_found = a.not_found \o b.not_found,
                             !.status = ExitStatus(TRUE, FALSE)]
    /\ undone' = TRUE
    /\ UNCHANGED <<clock, nextId, origin, lists, saved, faults, groups>>

NextAll ==
    \/ \E pace \in {0, 1} :
          \E ai \in Answers(get_first_level_files(fs), DefaultBatchSize, BOOLEAN),
             at \in Answers(get_first_level_files(fs), DefaultBatchSize, BOOLEAN) :
             OrganizeAll(Yes, Yes, DefaultBatchSize, ai, at, pace)
    \/ RevertAll

SpecAll == Init /\ [][NextAll]_vars

----------------------------------------------------------------------------
(* Properties of the ledger, the mover and the reverter *)

Lib == "move_log.json"

\* the records a call added to the sequence it found
Added(before, after) == SubSeq(after, Len(before) + 1, Len(after))

Relocated(id) == PathOf(fs, id) # origin[id]

\* C1: after revert_moves every file that sat at the target of a record of the ledger is
\* at the source of that record, and the folder of a folder-creation record has been
\* removed if and only if the restored moves left it empty.
C1_RevertRestoresEveryMove ==
    last.op = "revert_moves" /\ last.file.exists =>
        /\ \A i \in DOMAIN GetMoves(last.file) :
              LET m == GetMoves(last.file)[i] IN
              IsFile(last.pre, m.target) =>
                  IsFile(fs, m.source) /\ fs[m.source].id = last.pre[m.target].id
        /\ \A j \in DOMAIN GetFolders(last.file) :
              LET folder_path == GetFolders(last.file)[j].folder_path IN
              (folder_path \in Range(last.folders_removed) /\ ~PathExists(fs, folder_path))
                  <=> (IsDir(last.mid, folder_path) /\ Entries(last.mid, folder_path) = {})

C3_LedgerReflectsRelocations ==
    ~undone =>
        LET moves == GetMoves(ledger[Lib]) IN
        /\ \A id \in FileIds(fs) :
              Relocated(id) =>
                  Cardinality({i \in DOMAIN moves : moves[i].target = PathOf(fs, id)}) = 1
        /\ \A i \in DOMAIN moves :
              \E id \in FileIds(fs) :
                  /\ Relocated(id)
                  /\ PathOf(fs, id) = moves[i].target
                  /\ origin[id] = moves[i].source

C3_Witness ==
    /\ ~undone
    /\ last.op = "move_files_to_dir"
    /\ last.errors # <<>>
    /\ last.moves # <<>>
    /\ \E id \in FileIds(fs) : ~Relocated(id)

\* C4: a call of move_files_to_dir leaves every file that was in a folder where and as
\* it was; a moved file whose name is taken in the target folder is stored as
\* <stem>_<k><suffix> for the first k = 1, 2, ... that is not taken, and the records
\* of the call carry the paths the files are stored at, no two the same.
C4_MoveNeverOverwrites ==
    last.op = "move_files_to_dir" =>
        LET T == Top(last.target)
            Taken(name) == PathExists(fs, Join(T, name))
        IN /\ \A p \in DOMAIN last.pre :
                 Len(p) = 2 => PathExists(fs, p) /\ fs[p] = last.pre[p]
           /\ \A i \in DOMAIN last.moves :
                 LET m == last.moves[i] IN
                 /\ ~PathExists(last.pre, m.target)
                 /\ IsFile(fs, m.target) /\ fs[m.target] = last.pre[m.source]
                 /\ \/ m.target = Join(T, m.filename)
                    \/ \E k \in 1..MaxFiles :
                          /\ m.target = Join(T, NewName(m.filename, k))
                          /\ Taken(m.filename)
                          /\ \A j \in 1..(k - 1) : Taken(NewName(m.filename, j))
           /\ \A i, j \in DOMAIN last.moves :
                 i # j => last.moves[i].target # last.moves[j].target

C4_Witness ==
    /\ last.op = "move_files_to_dir"
    /\ \E i \in DOMAIN GetMoves(ledger[Lib]), j \in DOMAIN last.moves :
          LET first == GetMoves(ledger[Lib])[i]
              second == last.moves[j]
          IN /\ first.target = Join(Top(last.target), Name("report", ".pdf"))
             /\ second.target = Join(Top(last.target), Name("report_1", ".pdf"))
             /\ IsFile(fs, first.target) /\ IsFile(fs, second.target)
             /\ fs[first.target].id # fs[second.target].id

\* C5: in one call of move_files_to_dir a listed file that is not in the base directory
\* is reported in errors and gets no record, in the result or in the ledger, and every
\* listed file that is there is moved into the target folder and gets one record.
C5_MissingFileIsContained ==
    last.op = "move_files_to_dir" /\ ~last.raised =>
        LET added == Added(GetMoves(last.file), GetMoves(ledger[last.log])) IN
        \A name \in Range(last.names) :
            IF ~PathExists(last.pre, Top(name))
            THEN /\ [msg |-> "Source file not found", filename |-> name] \in Range(last.errors)
                 /\ \A i \in DOMAIN last.moves : last.moves[i].filename # name
                 /\ \A i \in DOMAIN added : added[i].filename # name
            ELSE /\ Cardinality({i \in DOMAIN last.moves : last.moves[i].filename = name}) = 1
                 /\ Cardinality({i \in DOMAIN added : added[i].filename = name}) = 1
                 /\ \E i \in DOMAIN added :
                       /\ added[i].filename = name
                       /\ added[i].target[1] = last.target
                       /\ IsFile(fs, added[i].target)
                       /\ fs[added[i].target] = last.pre[Top(name)]

C5_Witness ==
    /\ last.op = "move_files_to_dir"
    /\ Len(last.names) = 2
    /\ ~PathExists(last.pre, Top(last.names[1]))
    /\ PathExists(last.pre, Top(last.names[2]))
    /\ Len(last.moves) = 1
    /\ Len(last.errors) = 1

\* C6: a call of create_folders fails in no way, and the ledger gains one record for
\* each listed folder that was not on disk, and none for a folder that was.
C6_OneRecordPerNewFolder ==
    last.op = "create_folders" =>
        LET before == GetFolders(last.file)
            after == GetFolders(ledger[last.log])
            added == Added(before, after)
        IN /\ ~last.raised /\ ~last.warned
           /\ SubSeq(after, 1, Len(before)) = before
           /\ \A i \in DOMAIN added : added[i].folder_name \in Range(last.names)
           /\ \A name \in Range(last.names) :
                 /\ IsDir(fs, Top(name))
                 /\ Cardinality({i \in DOMAIN added : added[i].folder_name = name})
                       = IF PathExists(last.pre, Top(name)) THEN 0 ELSE 1

\* the second of two calls for the same folder: the folder is on disk, made by the
\* first call, which wrote its one record
C6_Witness ==
    /\ last.op = "create_folders"
    /\ \E name \in Range(last.names) :
          /\ IsDir(last.pre, Top(name))
          /\ last.pre[Top(name)].by = last.log
          /\ Cardinality({i \in DOMAIN GetFolders(ledger[last.log]) :
                              GetFolders(ledger[last.log])[i].folder_name = name}) = 1
    /\ ledger[last.log] = last.file

\* C7: a folder that holds an entry once revert_moves has restored the moves is on
\* disk afterwards with everything it held, and when it is a recorded folder the
\* result reports it in errors.
C7_NonEmptyFolderIsKept ==
    last.op = "revert_moves" =>
        \A d \in DOMAIN last.mid :
            IsDir(last.mid, d) /\ Entries(last.mid, d) # {} =>
                /\ IsDir(fs, d)
                /\ Entries(fs, d) = Entries(last.mid, d)
                /\ \A p \in Entries(fs, d) : fs[p] = last.mid[p]
                /\ (\E j \in DOMAIN GetFolders(last.file) :
                        GetFolders(last.file)[j].folder_path = d)
                     => [msg |-> "Folder not empty, cannot remove", path |-> d]
                            \in Range(last.errors)

\* a recorded folder that still holds a file the user put there
C7_Witness ==
    /\ last.op = "revert_moves"
    /\ last.reverted # <<>>
    /\ \E j \in DOMAIN GetFolders(last.file) :
          LET d == GetFolders(last.file)[j].folder_path IN
          /\ [msg |-> "Folder not empty, cannot remove", path |-> d] \in Range(last.errors)
          /\ \E id \in FileIds(fs) : PathOf(fs, id) \in Entries(fs, d) /\ ~Relocated(id)

\* C9: revert_moves takes the moves of the ledger, all of them, from the latest
\* timestamp to the earliest, and moves of one timestamp in the order in which they
\* were appended.
SameInstant(moves, t) == SelectSeq(moves, LAMBDA m : Instant(m.timestamp) = t)

C9_LatestMoveFirst ==
    last.op = "revert_moves" /\ last.file.exists /\ Records(last.file) > 0 =>
        LET moves == GetMoves(last.file) IN
        /\ Len(last.taken) = Len(moves)
        /\ \A i, j \in DOMAIN last.taken :
              i < j => Instant(last.taken[i].timestamp) >= Instant(last.taken[j].timestamp)
        /\ \A t \in 0..clock : SameInstant(last.taken, t) = SameInstant(moves, t)

\* two moves of different calls, the later one restored first
C9_Witness ==
    /\ last.op = "revert_moves"
    /\ Len(last.reverted) = 2
    /\ LET moves == GetMoves(last.file) IN
       /\ Len(moves) = 2
       /\ Instant(moves[1].timestamp) < Instant(moves[2].timestamp)
       /\ last.taken = <<moves[2], moves[1]>>
       /\ last.reverted[1].from = moves[2].target

\* C10: when a later move of the ledger used the path an earlier move had vacated,
\* revert_moves overwrites no file: every file that was there before it is there after it.
Chained(moves) ==
    \E i, j \in DOMAIN moves :
        i < j /\ (moves[j].source = moves[i].source \/ moves[j].target = moves[i].source)

C10_RevertNeverClobbers ==
    last.op = "revert_moves" /\ Chained(GetMoves(last.file)) =>
        FileIds(last.pre) \subseteq FileIds(fs)

\* C8: a revert command removes only folders that create_folders made for move_log.json;
\* a folder the user made, which was on disk before any create_folders call of the run
\* being reverted, is never removed.
C8_RevertRemovesOnlyOwnFolders ==
    last.op = "revert_organization" =>
        \A i \in DOMAIN last.folders_removed :
            last.pre[last.folders_removed[i]].by = "move_log.json"

\* C11: in a directory that holds two files and nothing else, with one of them listed
\* as important and no ledger yet, organize puts the listed file into important/, leaves
\* the other file alone and writes one MoveRecord and one FolderCreationRecord (for
\* important) to move_log.json; a revert in that state puts the file back at its
\* original path and removes important/.
Important == Top(Name("important", ""))

\* the tree holds the two files a and b directly under the directory, and nothing else
TwoFiles(tree, a, b) ==
    /\ a # b
    /\ DOMAIN tree = {Top(a), Top(b)}
    /\ IsFile(tree, Top(a)) /\ IsFile(tree, Top(b))

\* the tree and the ledger as organize leaves them: a in important/, b in place
Organized(tree, data, a, b) ==
    /\ a # b
    /\ DOMAIN tree = {Important, Join(Important, a), Top(b)}
    /\ IsDir(tree, Important) /\ IsFile(tree, Join(Important, a)) /\ IsFile(tree, Top(b))
    /\ Len(GetMoves(data)) = 1
    /\ GetMoves(data)[1].source = Top(a)
    /\ GetMoves(data)[1].target = Join(Important, a)
    /\ Len(GetFolders(data)) = 1
    /\ GetFolders(data)[1].folder_name = Name("important", "")
    /\ GetFolders(data)[1].folder_path = Important

C11_OrganizeThenRevert ==
    \A a, b \in FileNames :
        /\ ( /\ last.op = "initial_organize_files"
             /\ ~last.file.exists
             /\ TwoFiles(last.pre, a, b)
             /\ lists["important_files.txt"] = <<a>>
             /\ lists["trash_files.txt"] = <<>> )
           => /\ Organized(fs, ledger[Lib], a, b)
              /\ fs[Join(Important, a)] = last.pre[Top(a)]
              /\ fs[Top(b)] = last.pre[Top(b)]
        /\ ( /\ last.op = "revert_organization"
             /\ Organized(last.pre, last.file, a, b) )
           => /\ TwoFiles(fs, a, b)
              /\ fs[Top(a)] = last.pre[Join(Important, a)]
              /\ fs[Top(b)] = last.pre[Top(b)]

C11_Witness ==
    /\ last.op = "revert_organization"
    /\ \E a, b \in FileNames : Organized(last.pre, last.file, a, b)
    /\ Len(last.reverted) = 1
    /\ last.folders_removed = <<Important>>

\* C12: revert_moves takes every move of the ledger; a move whose target is not there
\* when its turn comes is reported in not_found and not in errors, its turn changes
\* nothing in the tree, and every folder record is still examined afterwards.
TreeBefore(i) ==
    RevertEach([fs |-> last.pre, taken |-> <<>>] @@ NoResult, SubSeq(last.taken, 1, i - 1)).fs

Examined(folder_path) ==
    \/ folder_path \in Range(last.folders_removed)
    \/ \E e \in Range(last.errors) \cup Range(last.not_found) : e.path = folder_path

C12_MissingTargetIsNotFound ==
    last.op = "revert_moves" /\ last.file.exists /\ Records(last.file) > 0 =>
        /\ Len(last.taken) = Len(GetMoves(last.file))
        /\ TreeBefore(Len(last.taken) + 1) = last.mid
        /\ \A i \in DOMAIN last.taken :
              LET move == last.taken[i] IN
              ~PathExists(TreeBefore(i), move.target) =>
                  /\ [msg |-> "Target file not found", path |-> move.target]
                         \in Range(last.not_found)
                  /\ \A e \in Range(last.errors) : e.path # move.target
                  /\ TreeBefore(i + 1) = TreeBefore(i)
        /\ \A j \in DOMAIN GetFolders(last.file) :
              Examined(GetFolders(last.file)[j].folder_path)

\* one move whose target is gone, and one move that is restored in the same call
C12_Witness ==
    /\ last.op = "revert_moves"
    /\ \E e \in Range(last.not_found) : e.msg = "Target file not found"
    /\ last.reverted # <<>>

\* C13: when the ledger file is missing or its content cannot be parsed, revert_moves
\* does not raise; it returns one entry in errors and nothing in reverted and in
\* folders_removed, and the tree is as it was.
C13_UnloadableLedgerIsReported ==
    last.op = "revert_moves" /\ ~Loads(last.file) =>
        /\ ~last.raised
        /\ Len(last.errors) = 1
        /\ last.errors[1].msg = "Failed to read log file"
        /\ last.reverted = <<>> /\ last.folders_removed = <<>>
        /\ fs = last.pre

\* a ledger with damaged content, while files sit in the folder it had recorded
C13_Witness ==
    /\ last.op = "revert_moves"
    /\ last.file = Corrupt
    /\ \E p \in DOMAIN fs : Len(p) = 2 /\ IsFile(fs, p)
    /\ last.errors # <<>>

\* C14: after a group revert that reported an error, group_move_log.json is still there.
C14_GroupLedgerKeptOnError ==
    last.op = "revert_groups" /\ last.errors # <<>> => ledger[GroupLog].exists

\* C15: after a revert of an initial run move_log.json is still there, with the moves
\* and the folder records it had, whether the reversal reported errors or not.
C15_InitialLedgerStays ==
    last.op = "revert_organization" =>
        /\ ledger[Lib].exists
        /\ ledger[Lib] = last.file
        /\ GetMoves(ledger[Lib]) = GetMoves(last.file)
        /\ GetFolders(ledger[Lib]) = GetFolders(last.file)

\* a reversal without any error, of a ledger that has a move and a folder record
C15_Witness ==
    /\ last.op = "revert_organization"
    /\ last.errors = <<>>
    /\ last.reverted # <<>> /\ last.folders_removed # <<>>
    /\ GetMoves(ledger[Lib]) # <<>> /\ GetFolders(ledger[Lib]) # <<>>

\* a reversal that reported an error
C15_WitnessWithErrors ==
    /\ last.op = "revert_organization"
    /\ last.errors # <<>>
    /\ ledger[Lib] = last.file

\* C17: the outcome of a revert is the same whatever the list files and groups.json
\* hold: with the same ledger and the same tree, every other classification state gives
\* the result buckets and the tree that this revert gave.
OtherClassifications ==
    {[lists |-> [f \in ListFiles |-> IF f = "important_files.txt" THEN important ELSE trash],
      groups |-> g] :
        important \in Batches(FileNames), trash \in {<<>>, <<Name("report", ".pdf")>>},
        g \in {NoGroups, [exists |-> TRUE, groups |-> <<>>]}}

C16_LedgersAreIndependent ==
    [][ /\ last'.op \in {"initial_organize_files", "revert_organization"}
             => ledger'["group_move_log.json"] = ledger["group_move_log.json"]
        /\ last'.op \in {"organize_groups", "revert_groups"}
             => ledger'["move_log.json"] = ledger["move_log.json"] ]_vars

\* a group organize that moved a file while the initial ledger holds a move of its own
C16_Witness ==
    /\ last.op = "organize_groups"
    /\ last.moves # <<>>
    /\ GetMoves(ledger["move_log.json"]) # <<>>
    /\ GetMoves(ledger["group_move_log.json"]) = last.moves

\* C18: a command ends with a status other than 0 exactly when a structural error
\* happened: a bad directory, a ledger that cannot be read on revert, or a classifier
\* call that failed.
C18_StatusTellsStructuralErrors ==
    last.op \in {"find", "initial_organize_files", "revert_organization", "main"} =>
        (last.status # 0 <=> last.structural)

\* C19: a find command whose classifier call failed leaves both list files as they
\* were, whatever the batches before the failed one had given.
C19_FailedClassificationWritesNothing ==
    [][last'.op = "find" /\ last'.structural => lists' = lists]_vars

\* the second batch fails after the first batch had flagged a file, and the list that
\* was there before is still there
C19_Witness ==
    /\ last.op = "find"
    /\ Len(last.answers) = 2
    /\ last.answers[1].flagged # {}
    /\ last.answers[2].failed
    /\ lists[last.log] # <<>>
    /\ Range(lists[last.log]) # last.answers[1].flagged

\* C20: when the ledger cannot be written, the caller of create_folders or of
\* move_files_to_dir learns of it: the call raises, or its result carries the failure.
C20_LedgerWriteFailureIsSurfaced ==
    last.write_failed =>
        \/ last.raised
        \/ \E e \in Range(last.errors) : e.msg = "Failed to save log file"

\* C21: a find command on a list file that exists asks the user first; unless the answer
\* is y or yes the classifier is not invoked and the list file stays as it was.
C21_NoRerunWithoutConfirmation ==
    [][(last'.op = "find" /\ last'.log \in saved
            /\ Lower(Strip(last'.response)) \notin {<<"y">>, <<"y", "e", "s">>})
        => (last'.asked /\ ~last'.invoked /\ lists' = lists /\ saved' = saved)]_vars

\* the user answers something else than y or yes to the question about a list that
\* holds a file, and the directory has a file the classifier could have flagged
C21_Witness ==
    /\ last.op = "find"
    /\ last.asked
    /\ last.response \in {<<"n">>, <<"y", "e", "p">>}
    /\ ~last.invoked
    /\ lists[last.log] # <<>>
    /\ Range(lists[last.log]) # Range(get_first_level_files(fs))

\* the entries of a result that carry the message msg
Reported(entries, msg) == SelectSeq(entries, LAMBDA e : e.msg = msg)

\* the created folder holds something before the revert, and all it holds is restored
\* by the revert
Emptied(folder_path) ==
    /\ IsDir(last.pre, folder_path)
    /\ Entries(last.pre, folder_path) # {}
    /\ \A p \in Entries(last.pre, folder_path) : \E r \in Range(last.reverted) : r.from = p

\* C22: revert_moves deals with every move of the ledger (restored, not found or failed)
\* before it looks at the created folders, so a folder that the restorations of the same
\* call emptied is removed by that call.
C22_MovesBeforeFolders ==
    last.op = "revert_moves" /\ Loads(last.file) /\ Records(last.file) > 0 =>
        /\ Len(last.reverted) + Len(Reported(last.not_found, "Target file not found"))
              + Len(Reported(last.errors, "Failed to revert")) = Len(GetMoves(last.file))
        /\ \A j \in DOMAIN GetFolders(last.file) :
              LET folder_path == GetFolders(last.file)[j].folder_path IN
              Emptied(folder_path) =>
                  folder_path \in Range(last.folders_removed) /\ ~PathExists(fs, folder_path)

\* a revert restores the file of a recorded folder and removes that folder
C22_Witness ==
    /\ last.op = "revert_moves"
    /\ \E j \in DOMAIN GetFolders(last.file) :
          /\ Emptied(GetFolders(last.file)[j].folder_path)
          /\ GetFolders(last.file)[j].folder_path \in Range(last.folders_removed)

\* C23: move_files_to_dir on a ledger path whose file is missing or holds corrupt content
\* (text that is not JSON, or JSON that is not a ledger object) does not raise, moves
\* every listed file that is there, and writes a ledger whose moves are exactly the
\* successful moves of the call.
C23_CorruptLedgerReadsAsEmpty ==
    last.op = "move_files_to_dir" /\ (~Loads(last.file) \/ Misshapen(last.file)) =>
        /\ ~last.raised
        /\ \A i \in DOMAIN last.names :
              IsFile(last.pre, Top(last.names[i])) =>
                  \E j \in DOMAIN last.moves :
                      /\ last.moves[j].source = Top(last.names[i])
                      /\ IsFile(fs, last.moves[j].target)
                      /\ fs[last.moves[j].target].id = last.pre[Top(last.names[i])].id
        /\ Loads(ledger[last.log])
        /\ GetMoves(ledger[last.log]) = last.moves
        /\ ledger[last.log].total_moves = Len(last.moves)

\* C24: when the classification step of organize-all fails, the command stops there: no
\* folder is created and no file is moved by it.
C24_FailedClassificationStopsOrganizeAll ==
    last.op = "organize_all" /\ last.structural =>
        /\ last.created_folders = <<>>
        /\ last.moves = <<>>
        /\ fs = last.pre

\* C28: after organize-all (an initial organize, then a group organize) on a directory
\* that nobody else changes, revert-all undoes everything, whatever the classification
\* and the grouping were: every file is at the path where it was, and no folder that the
\* tool made is left.
C28_RevertAllUndoesEverything ==
    last.op = "revert_all" /\ last.prev = "organize_all" =>
        /\ FileIds(fs) = 1..(nextId - 1)
        /\ \A id \in FileIds(fs) : PathOf(fs, id) = origin[id]
        /\ \A p \in DOMAIN fs : ~IsDir(fs, p)

\* the files that are not where they were before the last operation
RelocatedByLast == {id \in FileIds(last.pre) : PathOf(fs, id) # PathOf(last.pre, id)}

\* C25: a group descriptor without group_name or files makes the group organize end as an
\* error, and the group ledger is then sound: behind the moves it held it has a
\* MoveRecord for every file that the groups before the malformed one relocated, so a
\* revert puts those files back.
C25_MalformedGroupStopsWithSoundLedger ==
    (/\ last.op = "organize_groups"
     /\ \E i \in DOMAIN groups.groups : IsMalformed(groups.groups[i])) =>
        /\ last.raised /\ last.status # 0
        /\ FileIds(fs) = FileIds(last.pre)
        /\ RelocatedByLast # {} => Loads(ledger[GroupLog])
        /\ GetMoves(ledger[GroupLog]) = GetMoves(last.file) \o last.moves
        /\ \A id \in RelocatedByLast :
              \E j \in DOMAIN last.moves :
                  /\ last.moves[j].source = PathOf(last.pre, id)
                  /\ last.moves[j].target = PathOf(fs, id)
        /\ \A id \in RelocatedByLast :
              PathOf(revert_moves(fs, ledger[GroupLog]).fs, id) = PathOf(last.pre, id)

\* a group moved a file before the loop reached the malformed descriptor
C25_Witness ==
    /\ last.op = "organize_groups"
    /\ last.raised
    /\ Len(groups.groups) = 2
    /\ IsMalformed(groups.groups[2])
    /\ RelocatedByLast # {}
    /\ last.moves # <<>>

\* C26: in a ledger file that move_files_to_dir has written, total_moves is the number
\* of its moves, whatever calls of move_files_to_dir and create_folders came after.
C26_TotalMovesCountsMoves ==
    \A l \in Ledgers :
        Loads(ledger[l]) /\ "total_moves" \in ledger[l].keys =>
            ledger[l].total_moves = Len(GetMoves(ledger[l]))

\* create_folders appends a folder record to a ledger that holds a move
C26_Witness ==
    /\ last.op = "create_folders"
    /\ last.created_folders # <<>>
    /\ "total_moves" \in last.file.keys
    /\ Len(GetMoves(ledger[Lib])) > 0
    /\ Len(GetFolders(ledger[Lib])) > Len(GetFolders(last.file))

\* C27: a directory that a call of create_folders or move_files_to_dir has made in the
\* base directory has a folder record in the ledger the call was given.
C27_EveryMadeFolderIsRecorded ==
    last.op \in {"create_folders", "move_files_to_dir"} /\ ~last.raised =>
        \A name \in FolderNames :
            ~PathExists(last.pre, Top(name)) /\ IsDir(fs, Top(name)) =>
                \E j \in DOMAIN GetFolders(ledger[last.log]) :
                    GetFolders(ledger[last.log])[j].folder_path = Top(name)

\* the names that both lists hold and that are files of the base directory when
\* organize starts
InBothLists ==
    {name \in FileNames :
        /\ name \in Range(lists["important_files.txt"])
        /\ name \in Range(lists["trash_files.txt"])
        /\ IsFile(last.pre, Top(name))}

\* C30: organize moves the important list before the trash list: a file that both lists
\* name is in important/ afterwards and nowhere else, the run reports "Source file not
\* found" for it once, from the trash batch, and appends one move record for it.
C30_ImportantBeforeTrash ==
    last.op = "initial_organize_files" /\ ~last.raised =>
        \A name \in InBothLists :
            LET mine == {i \in DOMAIN last.moves : last.moves[i].filename = name}
                missed == {i \in DOMAIN last.errors : last.errors[i].filename = name}
                id == last.pre[Top(name)].id
            IN /\ Cardinality(mine) = 1
               /\ \A i \in mine :
                     /\ last.moves[i].source = Top(name)
                     /\ SubSeq(last.moves[i].target, 1, 1) = Top(Name("important", ""))
                     /\ \A p \in DOMAIN fs :
                           (fs[p].kind = "file" /\ fs[p].id = id) <=> p = last.moves[i].target
               /\ Cardinality(missed) = 1
               /\ \A i \in missed : last.errors[i].msg = "Source file not found"
               /\ GetMoves(ledger[Lib]) = GetMoves(last.file) \o last.moves

C30_Witness ==
    /\ last.op = "initial_organize_files"
    /\ ~last.raised
    /\ InBothLists # {}
    /\ \E i \in DOMAIN last.errors : last.errors[i].msg = "Source file not found"
    /\ \E name \in InBothLists : IsFile(fs, <<Name("important", ""), name>>)

\* what a revert of the initial run reports as not found: the paths, in any order
Missing(result) == {result.not_found[i].path : i \in DOMAIN result.not_found}

\* the paths the ledger records: the targets of its moves and its folders
Recorded(data) ==
    {GetMoves(data)[i].target : i \in DOMAIN GetMoves(data)}
        \cup {GetFolders(data)[j].folder_path : j \in DOMAIN GetFolders(data)}

\* a revert right after a revert: it moves nothing, removes nothing, and reports each
\* record as not found
SecondRevertFindsNothing ==
    /\ fs' = fs
    /\ last'.reverted = <<>>
    /\ last'.folders_removed = <<>>
    /\ Len(last'.not_found) = Records(ledger[Lib])
    /\ Missing(last') = Recorded(ledger[Lib])

\* C29, for every revert that ran to its end: a revert of the initial run that follows
\* at once on a revert that has read the ledger and gone through its records moves no
\* file, removes no folder and reports every recorded move and folder as not found.
C29_SecondRevertAfterAnyRevert ==
    [][(/\ last.op = "revert_organization"
        /\ ~last.raised /\ ~last.structural
        /\ last'.op = "revert_organization") => SecondRevertFindsNothing]_vars

\* C29, for a revert that reported no error: a revert of the initial run that follows at
\* once on a revert without errors moves no file, removes no folder and reports every
\* recorded move and folder as not found.
C29_SecondRevertFindsNothing ==
    [][(/\ last.op = "revert_organization"
        /\ ~last.raised /\ last.errors = <<>>
        /\ last'.op = "revert_organization") => SecondRevertFindsNothing]_vars

C29_Witness ==
    /\ last.op = "revert_organization"
    /\ last.prev = "revert_organization"
    /\ last.errors = <<>>
    /\ last.pre = fs
    /\ GetMoves(ledger[Lib]) # <<>> /\ GetFolders(ledger[Lib]) # <<>>
    /\ Len(last.not_found) = Records(ledger[Lib])

\* the groups of groups.json with a suggested folder, and those without
WithFolder == {i \in DOMAIN groups.groups : groups.groups[i].suggested_folder # NoName}

WithoutFolder == DOMAIN groups.groups \ WithFolder

\* the names that a group with a suggested folder holds
NamedForFolder == UNION {Range(groups.groups[i].files) : i \in WithFolder}

====
